---- MODULE Spec2Model ----
(***************************************************************************)
(* A model of app.py, the Campus-AI chat backend: the /chat handler with   *)
(* its in-memory session store, the day-order calculator, the timetable    *)
(* extractor (with its lru_cache) and the context reducer.                 *)
(*                                                                         *)
(* Text is modelled by TLA+ strings, character by character: Len, \o and   *)
(* SubSeq are the Sequences operators applied to strings.                  *)
(***************************************************************************)
EXTENDS Integers, Sequences, FiniteSets, TLC

VARIABLES
    sessions,   \* app.py:29   sessions = {}: session id -> list of turns
    resp,       \* what the last /chat request returned (status, reply, ...)
    nreq,       \* number of /chat requests handled so far
    pc,         \* interleaved handlers: each request's position in chat()
    tmp,        \* interleaved handlers: each request's locals
    cal,        \* day-order calculator run over consecutive calendar days
    ctx,        \* context reducer: inputs and the value returned
    tt,         \* timetable extractor: inputs and the value returned
    cache       \* app.py:74   lru_cache(maxsize=8) of extract_timetable

vars == <<sessions, resp, nreq, pc, tmp, cal, ctx, tt, cache>>

(***************************************************************************)
(* Bounds of the model.                                                    *)
(***************************************************************************)
MaxRequests == 4
MaxDateRequests == 1
MaxDays == 14
MaxDocLines == 2
MaxBudget == 6
MaxCalls == 2
MaxWarmup == 4

(***************************************************************************)
(* Python values.                                                          *)
(***************************************************************************)
\* None, as returned by get_day_order; the day orders are 1..6.
None == 0

Min(a, b) == IF a < b THEN a ELSE b
Max(a, b) == IF a > b THEN a ELSE b

\* s[i] of a non-empty string, 1-based.
Char(s, i) == SubSeq(s, i, i)

\* str.isspace of one character (the characters the model's texts use).
IsSpace(c) == c \in {" ", "\n", "\t"}

IsDigit(c) == c \in {"0", "1", "2", "3", "4", "5", "6", "7", "8", "9"}

\* str.lower of one character.
LowerChar(c) ==
    CASE c = "A" -> "a" [] c = "B" -> "b" [] c = "C" -> "c" [] c = "D" -> "d"
      [] c = "E" -> "e" [] c = "F" -> "f" [] c = "G" -> "g" [] c = "H" -> "h"
      [] c = "I" -> "i" [] c = "J" -> "j" [] c = "K" -> "k" [] c = "L" -> "l"
      [] c = "M" -> "m" [] c = "N" -> "n" [] c = "O" -> "o" [] c = "P" -> "p"
      [] c = "Q" -> "q" [] c = "R" -> "r" [] c = "S" -> "s" [] c = "T" -> "t"
      [] c = "U" -> "u" [] c = "V" -> "v" [] c = "W" -> "w" [] c = "X" -> "x"
      [] c = "Y" -> "y" [] c = "Z" -> "z" [] OTHER -> c

RECURSIVE Lower(_)
\* str.lower
Lower(s) ==
    IF s = "" THEN "" ELSE LowerChar(Char(s, 1)) \o Lower(SubSeq(s, 2, Len(s)))

\* Python's `sub in s` on strings.
Contains(sub, s) ==
    \E i \in 1..(Len(s) - Len(sub) + 1) : SubSeq(s, i, i + Len(sub) - 1) = sub

\* any(k in s for k in keys)
ContainsAny(keys, s) == \E k \in keys : Contains(k, s)

\* str.strip(): leading and trailing whitespace removed.
Strip(s) ==
    LET keep == {i \in 1..Len(s) : ~IsSpace(Char(s, i))}
    IN  IF keep = {} THEN ""
        ELSE LET lo == CHOOSE i \in keep : \A j \in keep : i <= j
                 hi == CHOOSE i \in keep : \A j \in keep : i >= j
             IN  SubSeq(s, lo, hi)

\* s[:n] for n >= 0
Prefix(s, n) == SubSeq(s, 1, Min(n, Len(s)))

\* lst[-n:] for n > 0
LastN(lst, n) == SubSeq(lst, Max(1, Len(lst) - n + 1), Len(lst))

(***************************************************************************)
(* Dates.  A date is its proleptic Gregorian ordinal (date.toordinal()).   *)
(***************************************************************************)
\* date.weekday(): Monday = 0 .. Sunday = 6
weekday(date) == (date + 6) % 7

\* The week the requests of the model arrive in: Monday, November 02, 2026
\* to Sunday, November 08, 2026.
Week == 739922..739928

Saturday == CHOOSE d \in Week : weekday(d) = 5

\* get_day_order with line 117's modulus taken as 7: a slip a weekly
\* rotation invites.
get_day_order_mod7(date) ==
    IF weekday(date) = 6 THEN None
    ELSE LET OFFSET == -1 IN ((weekday(date) + OFFSET) % 7) + 1

\* app.py:111-118
get_day_order(date) ==
    IF weekday(date) = 6 THEN None
    ELSE LET OFFSET == -1 IN ((weekday(date) + OFFSET) % 6) + 1

(***************************************************************************)
(* The day-order calculator, called once a day over consecutive days.      *)
(* cal.run is the list of the values returned on the non-Sunday days.      *)
(***************************************************************************)
CalStart ==
    [date : Week, called : {FALSE}, order : {None}, run : {<<>>}, days : {0}]

CallDayOrder ==
    /\ ~cal.called
    /\ LET d == get_day_order(cal.date)
       IN  cal' = [cal EXCEPT !.called = TRUE, !.order = d,
                              !.run = IF d = None THEN @ ELSE Append(@, d)]
    /\ UNCHANGED <<sessions, resp, nreq, pc, tmp, ctx, tt, cache>>

NextDay ==
    /\ cal.called
    /\ cal.days < MaxDays
    /\ cal' = [cal EXCEPT !.date = @ + 1, !.called = FALSE, !.days = @ + 1]
    /\ UNCHANGED <<sessions, resp, nreq, pc, tmp, ctx, tt, cache>>

(***************************************************************************)
(* Formatting.                                                             *)
(***************************************************************************)
Digit(n) ==
    CASE n = 0 -> "0" [] n = 1 -> "1" [] n = 2 -> "2" [] n = 3 -> "3"
      [] n = 4 -> "4" [] n = 5 -> "5" [] n = 6 -> "6" [] n = 7 -> "7"
      [] n = 8 -> "8" [] n = 9 -> "9"

RECURSIVE ToStr(_)
\* str(n) of an integer n >= 0, as the f-strings format day_order
ToStr(n) == IF n < 10 THEN Digit(n) ELSE ToStr(n \div 10) \o Digit(n % 10)

\* %d, %I, %M: two digits, zero padded
Pad2(n) == IF n < 10 THEN "0" \o Digit(n) ELSE ToStr(n)

\* %A
DayName(date) ==
    CASE weekday(date) = 0 -> "Monday" [] weekday(date) = 1 -> "Tuesday"
      [] weekday(date) = 2 -> "Wednesday" [] weekday(date) = 3 -> "Thursday"
      [] weekday(date) = 4 -> "Friday" [] weekday(date) = 5 -> "Saturday"
      [] weekday(date) = 6 -> "Sunday"

\* now.strftime('%A, %B %d, %Y'), for the dates of November 2026 (ordinal
\* 739920 is October 31, 2026).
strftime_date(now) ==
    DayName(now.date) \o ", November " \o Pad2(now.date - 739920) \o ", 2026"

\* now.strftime('%I:%M %p')
strftime_time(now) ==
    Pad2(((now.hour + 11) % 12) + 1) \o ":" \o Pad2(now.minute) \o " "
        \o (IF now.hour < 12 THEN "AM" ELSE "PM")

(***************************************************************************)
(* Timetable extraction (app.py:74-83).  The pattern of line 77,           *)
(*   DAY\s*ORDER\s*{day_order}.*?(?=DAY\s*ORDER\s*\d|$)                    *)
(* is searched with re.DOTALL | re.IGNORECASE.  Positions are 1-based; a   *)
(* position Len(s) + 1 is the end of the text; 0 stands for "no match".    *)
(***************************************************************************)
\* A literal of the pattern matched at position i, ignoring case.
LitAt(s, i, lit) ==
    /\ i >= 1
    /\ i + Len(lit) - 1 <= Len(s)
    /\ Lower(SubSeq(s, i, i + Len(lit) - 1)) = Lower(lit)

RECURSIVE SkipSpaces(_, _)
\* \s* at position i: greedy, and what follows it in the pattern is never
\* whitespace, so giving characters back can not help a match.
SkipSpaces(s, i) ==
    IF i <= Len(s) /\ IsSpace(Char(s, i)) THEN SkipSpaces(s, i + 1) ELSE i

\* DAY\s*ORDER\s* matched at i: the position after it, or 0.
MarkerEnd(s, i) ==
    IF ~LitAt(s, i, "DAY") THEN 0
    ELSE LET p == SkipSpaces(s, i + 3)
         IN  IF ~LitAt(s, p, "ORDER") THEN 0 ELSE SkipSpaces(s, p + 5)

\* DAY\s*ORDER\s*{day_order} matched at i: the position after it, or 0.
HeadEnd(s, i, day_order) ==
    LET p == MarkerEnd(s, i)
    IN  IF p # 0 /\ LitAt(s, p, ToStr(day_order))
        THEN p + Len(ToStr(day_order)) ELSE 0

\* The lookahead (?=DAY\s*ORDER\s*\d|$) at position j; without re.MULTILINE
\* $ matches at the end of the text and before a newline that ends it.
Lookahead(s, j) ==
    \/ LET p == MarkerEnd(s, j)
       IN  p # 0 /\ p <= Len(s) /\ IsDigit(Char(s, p))
    \/ j = Len(s) + 1
    \/ j = Len(s) /\ Char(s, j) = "\n"

RECURSIVE LazyEnd(_, _)
\* .*? from position j: the first position at or after j where the lookahead
\* holds (re.DOTALL: the dot matches every character).
LazyEnd(s, j) == IF Lookahead(s, j) THEN j ELSE LazyEnd(s, j + 1)

RECURSIVE SearchFrom(_, _, _)
\* re.search: the leftmost position the pattern matches at, or 0.
SearchFrom(s, i, day_order) ==
    IF i > Len(s) THEN 0
    ELSE IF HeadEnd(s, i, day_order) # 0 THEN i
    ELSE SearchFrom(s, i + 1, day_order)

NotFound(day_order) ==
    "Timetable for Day Order " \o ToStr(day_order) \o " not found."

\* app.py:80-83: start is where re.search found the pattern, or 0
MatchedSpan(day_order, pdf_text, start) ==
    IF start # 0
    THEN Strip(SubSeq(pdf_text, start,
             LazyEnd(pdf_text, HeadEnd(pdf_text, start, day_order)) - 1))
    ELSE NotFound(day_order)

GreedySpan(day_order, pdf_text, start) ==
    IF start # 0 THEN Strip(SubSeq(pdf_text, start, Len(pdf_text)))
    ELSE NotFound(day_order)

\* extract_timetable with the lazy .*? written as a greedy .* (which runs to
\* the end of the text, where the lookahead's $ holds).
extract_timetable_greedy(day_order, pdf_text) ==
    GreedySpan(day_order, pdf_text, SearchFrom(pdf_text, 1, day_order))

\* app.py:75-83, the function under the lru_cache
extract_timetable(day_order, pdf_text) ==
    MatchedSpan(day_order, pdf_text, SearchFrom(pdf_text, 1, day_order))

\* app.py:74  @lru_cache(maxsize=8)
maxsize == 8

\* The cache is a list of entries, least recently used first.
CacheIndex(c, key) ==
    IF \E i \in 1..Len(c) : c[i].key = key
    THEN CHOOSE i \in 1..Len(c) : c[i].key = key ELSE 0

RemoveAt(c, i) == SubSeq(c, 1, i - 1) \o SubSeq(c, i + 1, Len(c))

\* A hit: entry i becomes the most recent.
CacheHit(c, i) ==
    [val |-> c[i].val, hit |-> TRUE, cache |-> Append(RemoveAt(c, i), c[i])]

\* A miss: the value v is stored under key, the least recent entry of a
\* full cache making room.
CacheMiss(c, key, v) ==
    [val |-> v, hit |-> FALSE,
     cache |-> Append(IF Len(c) >= maxsize THEN Tail(c) ELSE c,
                      [key |-> key, val |-> v])]

Lookup(c, key, i) ==
    IF i # 0 THEN CacheHit(c, i)
    ELSE CacheMiss(c, key, extract_timetable(key[1], key[2]))

\* A call of the cached extract_timetable (app.py:74-75): a hit returns the
\* stored value, a miss runs the function.  The key is the argument pair.
cached_extract_timetable(c, day_order, pdf_text) ==
    Lookup(c, <<day_order, pdf_text>>,
           CacheIndex(c, <<day_order, pdf_text>>))

(***************************************************************************)
(* Context reduction (app.py:87-107).                                      *)
(***************************************************************************)
Letters ==
    {"a", "b", "c", "d", "e", "f", "g", "h", "i", "j", "k", "l", "m", "n",
     "o", "p", "q", "r", "s", "t", "u", "v", "w", "x", "y", "z"}

\* A character \w matches.
IsWord(c) == LowerChar(c) \in Letters \/ IsDigit(c) \/ c = "_"

RECURSIVE FindAllWords(_, _, _)
\* re.findall(r"\w+", s) as a set: the maximal runs of word characters,
\* scanning from position i with the run cur open.
FindAllWords(s, i, cur) ==
    LET done == IF cur = "" THEN {} ELSE {cur}
    IN  IF i > Len(s) THEN done
        ELSE IF IsWord(Char(s, i))
             THEN FindAllWords(s, i + 1, cur \o Char(s, i))
             ELSE done \cup FindAllWords(s, i + 1, "")

\* app.py:92
Tokens(message) == {t \in FindAllWords(Lower(message), 1, "") : Len(t) > 2}

RECURSIVE SplitLines(_, _, _)
\* str.splitlines() for texts whose only line boundary is "\n": no empty
\* last line after a final newline.
SplitLines(s, i, cur) ==
    IF i > Len(s) THEN (IF cur = "" THEN <<>> ELSE <<cur>>)
    ELSE IF Char(s, i) = "\n" THEN <<cur>> \o SplitLines(s, i + 1, "")
    ELSE SplitLines(s, i + 1, cur \o Char(s, i))

RECURSIVE SumLen(_)
\* sum(len(m) for m in matches)
SumLen(matches) ==
    IF matches = <<>> THEN 0 ELSE Len(Head(matches)) + SumLen(Tail(matches))

RECURSIVE Join(_)
\* "\n".join(matches)
Join(matches) ==
    IF matches = <<>> THEN ""
    ELSE IF Len(matches) = 1 THEN Head(matches)
    ELSE Head(matches) \o "\n" \o Join(Tail(matches))

RECURSIVE ScanLines(_, _, _, _, _)
\* The loop of app.py:97-102 from line number i on: the list of matches
\* when the loop ends or breaks.
ScanLines(lines, i, matches, tokens, max_chars) ==
    IF i > Len(lines) THEN matches
    ELSE LET lower_line == Lower(lines[i])
             m == IF \E token \in tokens : Contains(token, lower_line)
                  THEN Append(matches, Strip(lines[i])) ELSE matches
         IN  IF SumLen(m) >= max_chars THEN m
             ELSE ScanLines(lines, i + 1, m, tokens, max_chars)

\* app.py:104-107 without the final [:max_chars] of line 107.
context_of_uncut(matches, pdf_text, max_chars) ==
    IF matches = <<>> THEN Prefix(pdf_text, max_chars) ELSE Join(matches)

\* app.py:104-107
context_of(matches, pdf_text, max_chars) ==
    IF matches = <<>> THEN Prefix(pdf_text, max_chars)
    ELSE Prefix(Join(matches), max_chars)

\* app.py:93-102: tokens is the set of line 92
scan(tokens, pdf_text, max_chars) ==
    IF tokens = {} THEN <<>>
    ELSE ScanLines(SplitLines(pdf_text, 1, ""), 1, <<>>, tokens, max_chars)

\* app.py:87-107
get_relevant_context(message, pdf_text, max_chars) ==
    IF pdf_text = "" THEN ""
    ELSE context_of(scan(Tokens(message), pdf_text, max_chars), pdf_text,
                    max_chars)

\* app.py:87  max_chars=1200
DefaultMaxChars == 1200

(***************************************************************************)
(* The /chat handler (app.py:122-235).                                     *)
(*                                                                         *)
(* A request is its JSON body, the clock reading datetime.now() gives      *)
(* while it is handled, and what the LLM service does if it is called.     *)
(* The emoji that open the replies in the source are left out of the       *)
(* reply texts.                                                            *)
(***************************************************************************)
\* app.py:28, 70: the text of the PDFs, loaded once at startup (the PDFs are
\* not part of the repository: this is a sample corpus).
college_data ==
    "Office hours 9 to 4\nDAY ORDER 1\nMaths\nDay Order 2\nLab\n"

\* app.py:139, 150: {"role": role, "content": content}
Turn(role, content) == [role |-> role, content |-> content]

\* A JSON field: absent, a string, or a number.
Absent == [t |-> "absent", v |-> ""]
Str(v) == [t |-> "str", v |-> v]
Num(v) == [t |-> "int", v |-> v]

\* sessions[session_id] = lst
Put(sess, session_id, lst) ==
    [k \in DOMAIN sess \cup {session_id} |->
        IF k = session_id THEN lst ELSE sess[k]]

\* What the try block of chat() ends with: a response, or an exception.
Returned(status, reply, branch, sess, c, target, llmCalls, prompt) ==
    [raised |-> FALSE, err |-> "", status |-> status, reply |-> reply,
     branch |-> branch, sessions |-> sess, cache |-> c, target |-> target,
     llmCalls |-> llmCalls, prompt |-> prompt]

Raised(err, branch, sess, c, llmCalls, prompt) ==
    [raised |-> TRUE, err |-> err, status |-> 0, reply |-> "",
     branch |-> branch, sessions |-> sess, cache |-> c, target |-> None,
     llmCalls |-> llmCalls, prompt |-> prompt]

NoPrompt == [context |-> "", history |-> <<>>, message |-> ""]

\* app.py:135-137
trim_history(lst) == IF Len(lst) > 6 THEN LastN(lst, 6) ELSE lst

\* app.py:163-168 and 185-190 (timedelta(days=n) on a date is + n)
resolve_target(lower_msg, today) ==
    IF Contains("tomorrow", lower_msg) THEN today + 1
    ELSE IF Contains("day after", lower_msg) THEN today + 2
    ELSE today

\* app.py:207: the history the prompt is built from, of which line 216
\* sends the last 2 turns
recent_history(lst) == LastN(IF Len(lst) > 4 THEN LastN(lst, 4) ELSE lst, 2)

Answer(reply, branch, c, target) ==
    [raised |-> FALSE, err |-> "", reply |-> reply, branch |-> branch,
     cache |-> c, target |-> target, llmCalls |-> 0, prompt |-> NoPrompt]

\* app.py:175-176: r is what the cached extract_timetable returned
timetable_answer(day_order, target, r) ==
    Answer("**Day Order " \o ToStr(day_order) \o "** Timetable:\n\n" \o r.val,
           "timetable", r.cache, target)

\* app.py:140-228: what the handler answers to a message, the user message
\* being appended already (history is the session's list then): the reply
\* of a quick branch, or of the LLM, which may raise.
respond(history, c, message, now, llm) ==
    LET lower_msg == Lower(message)
    IN  IF ContainsAny({"date", "what day"}, lower_msg)
        THEN Answer("Today is " \o strftime_date(now) \o ".", "date", c, None)
        ELSE IF ContainsAny({"time", "what time"}, lower_msg)
        THEN Answer("Current time is " \o strftime_time(now) \o ".", "time",
                    c, None)
        ELSE IF ContainsAny({"timetable", "schedule", "class", "period"},
                            lower_msg)
        THEN LET target == resolve_target(lower_msg, now.date)
                 day_order == get_day_order(target)
             IN  IF day_order = None
                 THEN Answer("It's Sunday - No classes today!", "timetable",
                             c, target)
                 ELSE timetable_answer(
                          day_order, target,
                          cached_extract_timetable(c, day_order, college_data))
        ELSE IF Contains("day order", lower_msg)
        THEN LET target == resolve_target(lower_msg, now.date)
                 day_order == get_day_order(target)
             IN  Answer(IF day_order = None
                        THEN "It's Sunday - No day order today."
                        ELSE "Today is **Day Order " \o ToStr(day_order)
                               \o "**.",
                        "dayorder", c, target)
        ELSE LET prompt ==
                     [context |-> get_relevant_context(message, college_data,
                                                       DefaultMaxChars),
                      history |-> recent_history(history),
                      message |-> message]
             IN  [raised |-> ~llm.ok, err |-> IF llm.ok THEN "" ELSE llm.text,
                  reply |-> IF llm.ok THEN llm.text ELSE "",
                  branch |-> "llm", cache |-> c, target |-> None,
                  llmCalls |-> 1, prompt |-> prompt]

\* A branch that returns its reply without appending it.
finish_noappend(s1, session_id, a) ==
    IF a.raised
    THEN Raised(a.err, a.branch, s1, a.cache, a.llmCalls, a.prompt)
    ELSE Returned(200, a.reply, a.branch, s1, a.cache, a.target, a.llmCalls,
                  a.prompt)

\* The end of a branch: the reply a is appended and returned (lines 150-151,
\* 156-157, 178-179, 199-200, 230-231), unless the LLM call raised.
finish(s1, session_id, a) ==
    IF a.raised
    THEN Raised(a.err, a.branch, s1, a.cache, a.llmCalls, a.prompt)
    ELSE Returned(200, a.reply, a.branch,
                  [s1 EXCEPT ![session_id] =
                       Append(@, Turn("assistant", a.reply))],
                  a.cache, a.target, a.llmCalls, a.prompt)

\* app.py:139-231: the handler from the append of the user message on;
\* sess already holds the (trimmed) list of session_id.
dispatch(sess, c, message, session_id, now, llm) ==
    finish([sess EXCEPT ![session_id] = Append(@, Turn("user", message))],
           session_id,
           respond(Append(sess[session_id], Turn("user", message)), c,
                   message, now, llm))

\* app.py:132-133
ensure_session(sess, session_id) ==
    IF session_id \notin DOMAIN sess THEN Put(sess, session_id, <<>>)
    ELSE sess

\* app.py:136-137
trimmed(sess, session_id) ==
    [sess EXCEPT ![session_id] = trim_history(@)]

\* Line 126 without its .strip().
clean_message_nostrip(body) ==
    IF body.message.t = "absent" THEN "" ELSE body.message.v

\* app.py:126  data.get("message", "").strip(), for a string or no message
clean_message(body) ==
    Strip(IF body.message.t = "absent" THEN "" ELSE body.message.v)

\* app.py:125-231: the try block.
chat_try(sess, c, body, now, llm) ==
    IF body.kind # "object"
    THEN Raised("'list' object has no attribute 'get'", "none", sess, c, 0,
                NoPrompt)
    ELSE IF body.message.t = "int"
    THEN Raised("'int' object has no attribute 'strip'", "none", sess, c, 0,
                NoPrompt)
    ELSE LET message == clean_message(body)
             session_id == IF body.sessionId.t = "absent" THEN "default"
                           ELSE body.sessionId.v
         IN  IF message = ""
             THEN Returned(400, "Please ask a question.", "empty", sess, c,
                           None, 0, NoPrompt)
             ELSE dispatch(trimmed(ensure_session(sess, session_id),
                                   session_id),
                           c, message, session_id, now, llm)

\* The exception, if any, leaves the handler.
propagate(r) ==
    [r EXCEPT !.status = IF r.raised THEN 0 ELSE @] @@
    [propagated |-> r.raised]

\* app.py:233-235: r is what the try block ended with
except_clause(r) ==
    IF r.raised
    THEN [r EXCEPT !.status = 500, !.reply = "Error: " \o r.err] @@
         [propagated |-> FALSE]
    ELSE r @@ [propagated |-> FALSE]

\* chat() whose except clause is missing.
chat_uncaught(sess, c, body, now, llm) ==
    propagate(chat_try(sess, c, body, now, llm))

\* app.py:124-235: the try block under `except Exception`.
chat(sess, c, body, now, llm) ==
    except_clause(chat_try(sess, c, body, now, llm))

(***************************************************************************)
(* The server handling one request after another.                          *)
(***************************************************************************)
\* What the LLM service does if it is called: it answers, or it raises.
LLMAnswers == [ok |-> TRUE, text |-> "Please check the college notice board."]
LLMFails == [ok |-> FALSE, text |-> "503 The service is unavailable."]

Obj(message, sessionId) ==
    [kind |-> "object", message |-> message, sessionId |-> sessionId]

\* A JSON body that is a list, not an object.
ArrayBody == [kind |-> "array", message |-> Absent, sessionId |-> Absent]

Req(body, llm) == [body |-> body, llm |-> llm]

\* The requests of Spec: bodies the handler can not read, bodies with no
\* message to answer, one message for each branch of the handler, and a
\* message for the LLM with each thing the service may do; two session ids.
HistoryRequests ==
    {Req(ArrayBody, LLMAnswers), Req(Obj(Num("42"), Absent), LLMAnswers)}
    \cup {Req(Obj(m, sid), LLMAnswers) :
             m \in {Absent, Str(""), Str("  \n")}, sid \in {Absent, Str("s1")}}
    \cup {Req(Obj(Str(m), Absent), LLMAnswers) :
             m \in {"What is the date?", "what time is it", "class schedule",
                    "day order"}}
    \cup {Req(Obj(Str("day order"), Str("s1")), LLMAnswers)}
    \cup {Req(Obj(Str("hello"), sid), llm) :
             sid \in {Absent, Str("s1")}, llm \in {LLMAnswers, LLMFails}}

HistoryClock == {[date |-> Saturday, hour |-> 14, minute |-> 5]}

\* The requests of SpecDates: the messages about timetables and day orders,
\* with each date keyword, on every day of the week.
DateMessages ==
    {"timetable for tomorrow", "class schedule", "schedule tomorrow",
     "schedule day after", "schedule day after tomorrow", "day order",
     "day order tomorrow", "day order day after",
     "day order day after tomorrow"}

DateRequests ==
    {Req(Obj(Str(m), sid), LLMAnswers) :
        m \in DateMessages, sid \in {Absent, Str("s1")}}

DateClock == [date : Week, hour : {9}, minute : {30}]

NoBody == [kind |-> "none", message |-> Absent, sessionId |-> Absent]

NoResponse ==
    [raised |-> FALSE, err |-> "", status |-> 0, reply |-> "",
     branch |-> "none", target |-> None, llmCalls |-> 0,
     prompt |-> NoPrompt, propagated |-> FALSE, body |-> NoBody,
     llm |-> LLMAnswers,
     now |-> [date |-> Saturday, hour |-> 0, minute |-> 0]]

CalIdle ==
    [date |-> Saturday, called |-> FALSE, order |-> None, run |-> <<>>,
     days |-> 0]

CtxIdle ==
    [query |-> "", doc |-> "", budget |-> 0, called |-> FALSE, out |-> ""]

TtIdle ==
    [text |-> "", day_order |-> 1, out |-> "", calls |-> 0, hit |-> FALSE,
     seen |-> <<>>]

\* The state after the module is loaded: no session, an empty cache.
StoreInit ==
    /\ sessions = <<>>
    /\ cache = <<>>
    /\ resp = NoResponse
    /\ nreq = 0

ServerInit ==
    /\ StoreInit
    /\ pc = <<>>
    /\ tmp = <<>>

Init ==
    /\ ServerInit
    /\ cal = CalIdle
    /\ ctx = CtxIdle
    /\ tt = TtIdle

\* One /chat request, handled from its arrival to its response.
Chat(requests, clock) ==
    \E req \in requests, now \in clock :
        \E r \in {chat(sessions, cache, req.body, now, req.llm)} :
            /\ sessions' = r.sessions
            /\ cache' = r.cache
            /\ resp' = [raised |-> r.raised, err |-> r.err,
                        status |-> r.status, reply |-> r.reply,
                        branch |-> r.branch, target |-> r.target,
                        llmCalls |-> r.llmCalls, prompt |-> r.prompt,
                        propagated |-> r.propagated, body |-> req.body,
                        llm |-> req.llm, now |-> now]
            /\ nreq' = nreq + 1
            /\ UNCHANGED <<pc, tmp, cal, ctx, tt>>

ChatRequest == nreq < MaxRequests /\ Chat(HistoryRequests, HistoryClock)

Next == ChatRequest

Spec == Init /\ [][Next]_vars

DateRequest == nreq < MaxDateRequests /\ Chat(DateRequests, DateClock)

NextDates == DateRequest

SpecDates == Init /\ [][NextDates]_vars

(***************************************************************************)
(* The day-order calculator on its own: SpecDayOrder walks the calendar    *)
(* from any day of the week, calling get_day_order once a day.             *)
(***************************************************************************)
InitDayOrder ==
    /\ ServerInit
    /\ cal \in CalStart
    /\ ctx = CtxIdle
    /\ tt = TtIdle

NextDayOrder == CallDayOrder \/ NextDay

SpecDayOrder == InitDayOrder /\ [][NextDayOrder]_vars

(***************************************************************************)
(* The context reducer on its own: SpecContext draws a query, a document   *)
(* and a budget, and calls get_relevant_context.                           *)
(***************************************************************************)
LinePool == {"", "abc", " Abc ", "xy", "ab cd", "zABCz  "}

SeqsUpTo(S, n) == UNION {[1..k -> S] : k \in 0..n}

\* The documents: up to MaxDocLines lines of the pool, each line ended by a
\* newline but, sometimes, the last.
Docs ==
    {Join(ls) \o e : ls \in SeqsUpTo(LinePool, MaxDocLines), e \in {"", "\n"}}

Queries ==
    {"", "ab", "Abc", "is ABC xy?", "a-b-c", "Abc, cd!", "xyz",
     "what about cd"}

InitContext ==
    /\ ServerInit
    /\ cal = CalIdle
    /\ ctx \in [query : Queries, doc : Docs, budget : 0..MaxBudget,
                called : {FALSE}, out : {""}]
    /\ tt = TtIdle

ReduceContext ==
    /\ ~ctx.called
    /\ ctx' = [ctx EXCEPT !.called = TRUE,
                          !.out = get_relevant_context(ctx.query, ctx.doc,
                                                       ctx.budget)]
    /\ UNCHANGED <<sessions, resp, nreq, pc, tmp, cal, tt, cache>>

NextContext == ReduceContext

SpecContext == InitContext /\ [][NextContext]_vars

(***************************************************************************)
(* The timetable extractor on its own: SpecTimetable draws a document and  *)
(* calls the cached extract_timetable for day orders 1..6.  tt.seen maps   *)
(* each day order already asked for to the value its first call returned.  *)
(***************************************************************************)
Frags ==
    {"Intro\n", "DAY ORDER 1\nMaths \n", " day  order2 Lab", "DAYORDER12\n",
     "Day Order x ", "DAY\nORDER\t3"}

\* The documents: one or two fragments, or none.
Texts == {""} \cup Frags \cup {a \o b : a \in Frags, b \in Frags}

DayOrders == 1..6

InitTimetable ==
    /\ ServerInit
    /\ cal = CalIdle
    /\ ctx = CtxIdle
    /\ tt \in [text : Texts, day_order : {1}, out : {""}, calls : {0},
               hit : {FALSE}, seen : {<<>>}]

CallExtract ==
    /\ tt.calls < MaxCalls
    /\ \E n \in DayOrders :
        \E r \in {cached_extract_timetable(cache, n, tt.text)} :
            /\ cache' = r.cache
            /\ tt' = [tt EXCEPT !.day_order = n, !.out = r.val,
                                !.hit = r.hit, !.calls = @ + 1,
                                !.seen = IF n \in DOMAIN @ THEN @
                                         ELSE Put(@, n, r.val)]
    /\ UNCHANGED <<sessions, resp, nreq, pc, tmp, cal, ctx>>

NextTimetable == CallExtract

SpecTimetable == InitTimetable /\ [][NextTimetable]_vars

(***************************************************************************)
(* Two requests for the session "default" handled at once, interleaved     *)
(* statement by statement, after up to MaxWarmup requests handled one at   *)
(* a time.  The trim of line 137 is two steps: the slice is read, then     *)
(* sessions[session_id] is assigned.  An append looks the list up and      *)
(* appends to it in one step.                                              *)
(***************************************************************************)
Handlers == {1, 2}

MessageOf(t) == IF t = 1 THEN "hello" ELSE "What is the date?"

WarmupRequests == {Req(Obj(Str("what time is it"), Absent), LLMAnswers)}

InitInterleaved ==
    /\ StoreInit
    /\ pc = [t \in Handlers |-> "idle"]
    /\ tmp = [t \in Handlers |->
                 [slice |-> <<>>, reply |-> "", status |-> 0,
                  sentUser |-> FALSE, sentReply |-> FALSE]]
    /\ cal = CalIdle
    /\ ctx = CtxIdle
    /\ tt = TtIdle

Goto(t, label) == pc' = [pc EXCEPT ![t] = label]

Rest == <<resp, nreq, cal, ctx, tt>>

\* A request handled alone, before the two arrive.
Warmup ==
    /\ \A t \in Handlers : pc[t] = "idle"
    /\ nreq < MaxWarmup
    /\ Chat(WarmupRequests, HistoryClock)

\* app.py:125-130: the body is read; the message is not empty.
Arrive(t) ==
    /\ pc[t] = "idle"
    /\ Goto(t, "L132")
    /\ UNCHANGED <<sessions, cache, tmp, Rest>>

\* app.py:132
TestSession(t) ==
    /\ pc[t] = "L132"
    /\ Goto(t, IF "default" \notin DOMAIN sessions THEN "L133" ELSE "L136")
    /\ UNCHANGED <<sessions, cache, tmp, Rest>>

\* app.py:133
CreateSession(t) ==
    /\ pc[t] = "L133"
    /\ sessions' = Put(sessions, "default", <<>>)
    /\ Goto(t, "L136")
    /\ UNCHANGED <<cache, tmp, Rest>>

\* app.py:136
TestLength(t) ==
    /\ pc[t] = "L136"
    /\ Goto(t, IF Len(sessions["default"]) > 6 THEN "L137" ELSE "L139")
    /\ UNCHANGED <<sessions, cache, tmp, Rest>>

\* app.py:137, the right-hand side: sessions[session_id][-6:]
ReadSlice(t) ==
    /\ pc[t] = "L137"
    /\ tmp' = [tmp EXCEPT ![t].slice = LastN(sessions["default"], 6)]
    /\ Goto(t, "L137store")
    /\ UNCHANGED <<sessions, cache, Rest>>

\* app.py:137, the assignment
StoreSlice(t) ==
    /\ pc[t] = "L137store"
    /\ sessions' = [sessions EXCEPT !["default"] = tmp[t].slice]
    /\ Goto(t, "L139")
    /\ UNCHANGED <<cache, tmp, Rest>>

\* app.py:139
AppendUser(t) ==
    /\ pc[t] = "L139"
    /\ sessions' = [sessions EXCEPT !["default"] =
                        Append(@, Turn("user", MessageOf(t)))]
    /\ tmp' = [tmp EXCEPT ![t].sentUser = TRUE]
    /\ Goto(t, "L140")
    /\ UNCHANGED <<cache, Rest>>

\* app.py:140-228: the reply is computed; a failing LLM call ends the
\* request in the except clause (lines 233-235).
Respond(t) ==
    /\ pc[t] = "L140"
    /\ \E now \in HistoryClock, llm \in {LLMAnswers, LLMFails} :
        \E a \in {respond(sessions["default"], cache, MessageOf(t), now,
                          llm)} :
            /\ cache' = a.cache
            /\ tmp' = [tmp EXCEPT ![t].reply = a.reply,
                                  ![t].status = IF a.raised THEN 500 ELSE 0]
            /\ Goto(t, IF a.raised THEN "done" ELSE "append")
    /\ UNCHANGED <<sessions, Rest>>

\* app.py:150-151, 156-157, 178-179, 199-200, 230-231
AppendReply(t) ==
    /\ pc[t] = "append"
    /\ sessions' = [sessions EXCEPT !["default"] =
                        Append(@, Turn("assistant", tmp[t].reply))]
    /\ tmp' = [tmp EXCEPT ![t].sentReply = TRUE, ![t].status = 200]
    /\ Goto(t, "done")
    /\ UNCHANGED <<cache, Rest>>

NextInterleaved ==
    \/ Warmup
    \/ \E t \in Handlers :
        \/ Arrive(t)
        \/ TestSession(t)
        \/ CreateSession(t)
        \/ TestLength(t)
        \/ ReadSlice(t)
        \/ StoreSlice(t)
        \/ AppendUser(t)
        \/ Respond(t)
        \/ AppendReply(t)

SpecInterleaved == InitInterleaved /\ [][NextInterleaved]_vars

(***************************************************************************)
(* The properties.                                                         *)
(***************************************************************************)
Range(f) == {f[i] : i \in DOMAIN f}

\* The session a request names: its sessionId, or "default".
SidOf(body) ==
    IF body.sessionId.t = "absent" THEN "default" ELSE body.sessionId.v

\* The message of a request as sent, "" if it sends none.
SentMessage(body) == IF body.message.t = "str" THEN body.message.v ELSE ""

UserTurn(body) == [role |-> "user", content |-> Strip(SentMessage(body))]

AssistantTurn(reply) == [role |-> "assistant", content |-> reply]

IsSuffix(x, lst) ==
    Len(x) <= Len(lst) /\ SubSeq(lst, Len(lst) - Len(x) + 1, Len(lst)) = x

\* C1: after every request, the list of turns of every session has at most
\* 6 entries.
C1_HistoryAtMostSix ==
    \A sid \in DOMAIN sessions : Len(sessions[sid]) <= 6

\* C2, as claimed: whichever branch has handled the last request (the
\* rejection of an empty message, date, time, timetable, day order, LLM),
\* the list of its session ends with the user message and then the
\* assistant reply of the response.
C2_EveryBranchAppendsBoth ==
    (nreq > 0 /\ resp.branch \in {"empty", "date", "time", "timetable",
                                   "dayorder", "llm"})
    => /\ SidOf(resp.body) \in DOMAIN sessions
       /\ Len(sessions[SidOf(resp.body)]) >= 2
       /\ LastN(sessions[SidOf(resp.body)], 2) =
              <<UserTurn(resp.body), AssistantTurn(resp.reply)>>

Appended(old, new, turns) ==
    /\ Len(new) >= Len(turns)
    /\ LastN(new, Len(turns)) = turns
    /\ IsSuffix(SubSeq(new, 1, Len(new) - Len(turns)), old)

\* C2, amended: a request handled by the date, time, timetable or day-order
\* branch, or by the LLM branch when the call returns, appends the user
\* message and then the assistant reply to its session's list (which keeps,
\* before them, a suffix of what it held); the rejection of an empty
\* message appends nothing to any session; the LLM branch whose call
\* raises appends the user message only.
C2_AppendsByBranch ==
    [][nreq' = nreq + 1 =>
          LET sid == SidOf(resp'.body)
              old == IF sid \in DOMAIN sessions THEN sessions[sid] ELSE <<>>
              u == UserTurn(resp'.body)
              a == AssistantTurn(resp'.reply)
          IN  CASE resp'.branch \in {"date", "time", "timetable", "dayorder"}
                     \/ (resp'.branch = "llm" /\ resp'.llm.ok)
                   -> /\ sid \in DOMAIN sessions'
                      /\ Appended(old, sessions'[sid], <<u, a>>)
                      /\ resp'.status = 200
                [] resp'.branch = "llm" /\ ~resp'.llm.ok
                   -> /\ sid \in DOMAIN sessions'
                      /\ Appended(old, sessions'[sid], <<u>>)
                      /\ resp'.status = 500
                [] resp'.branch = "empty" -> sessions' = sessions
                [] OTHER -> TRUE]_vars

\* A timetable request answered in a session whose list had been trimmed.
C2_Witness ==
    /\ nreq = MaxRequests
    /\ resp.branch = "timetable"
    /\ "default" \in DOMAIN sessions
    /\ Len(sessions["default"]) = 8
    /\ sessions["default"][8] = AssistantTurn(resp.reply)
    /\ sessions["default"][7] = [role |-> "user", content |-> "class schedule"]

\* C3: "timetable for tomorrow" on a Saturday is answered by the timetable
\* branch, for Sunday, with the Sunday reply, and without the LLM.
C3_TimetableTomorrowOnSaturday ==
    (/\ nreq > 0
     /\ resp.body.message = Str("timetable for tomorrow")
     /\ weekday(resp.now.date) = 5)
    => /\ resp.branch = "timetable"
       /\ resp.target = resp.now.date + 1
       /\ weekday(resp.target) = 6
       /\ resp.reply = "It's Sunday - No classes today!"
       /\ resp.llmCalls = 0

\* C4: get_day_order returns None exactly on Sundays and a value of 1..6 on
\* the other days; over consecutive non-Sunday days the value advances by
\* 1, 6 being followed by 1, and so repeats with period 6.
C4_DayOrderCycle ==
    /\ cal.called =>
          /\ (cal.order = None) <=> (weekday(cal.date) = 6)
          /\ cal.order # None => cal.order \in 1..6
    /\ \A i \in 1..(Len(cal.run) - 1) :
          cal.run[i + 1] = IF cal.run[i] = 6 THEN 1 ELSE cal.run[i] + 1
    /\ \A i \in 1..(Len(cal.run) - 6) : cal.run[i + 6] = cal.run[i]

\* A Monday reached after more than a week of calls, Sundays among them.
C4_Witness ==
    /\ cal.called
    /\ DayName(cal.date) = "Monday"
    /\ cal.order = 6
    /\ Len(cal.run) >= 8
    /\ cal.days > Len(cal.run)

\* A message that is missing, empty or only whitespace.
NoMessage(body) ==
    \/ body.message.t = "absent"
    \/ /\ body.message.t = "str"
       /\ \A i \in 1..Len(body.message.v) : IsSpace(Char(body.message.v, i))

\* C5: a request with no message, an empty message or a message of
\* whitespace is rejected with status 400 and "Please ask a question.",
\* without a call of the LLM and with the sessions map as it was.
C5_EmptyMessageRejected ==
    [][(/\ nreq' = nreq + 1
        /\ resp'.body.kind = "object"
        /\ NoMessage(resp'.body))
       => /\ resp'.status = 400
          /\ resp'.reply = "Please ask a question."
          /\ resp'.llmCalls = 0
          /\ sessions' = sessions]_vars

\* A whitespace message for a session that does not exist, rejected while
\* another session exists.
C5_Witness ==
    /\ resp.status = 400
    /\ resp.body = Obj(Str("  \n"), Str("s1"))
    /\ "s1" \notin DOMAIN sessions
    /\ "default" \in DOMAIN sessions

\* C6: when the body is not a JSON object, the message is not a string, or
\* the LLM call fails, the exception does not leave the handler: the
\* response is a 500 whose reply carries the error text; and the LLM is
\* called at most once for a request.
C6_ErrorsBecome500 ==
    nreq > 0 =>
       /\ ~resp.propagated
       /\ resp.llmCalls <= 1
       /\ (\/ resp.body.kind # "object"
           \/ resp.body.message.t = "int"
           \/ (resp.llmCalls > 0 /\ ~resp.llm.ok))
          => /\ resp.status = 500
             /\ resp.err # ""
             /\ resp.reply = "Error: " \o resp.err
             /\ resp.llmCalls > 0 => resp.err = resp.llm.text

\* A failing LLM call answered with a 500, after other requests.
C6_Witness ==
    /\ nreq > 1
    /\ resp.status = 500
    /\ resp.llmCalls = 1
    /\ resp.reply = "Error: 503 The service is unavailable."

\* The tokens of a query: the maximal runs of word characters of the
\* lowercased query that are longer than 2 characters.
QueryTokens(q) ==
    LET lq == Lower(q)
        word(i, j) ==
            /\ \A k \in i..j : IsWord(Char(lq, k))
            /\ i = 1 \/ ~IsWord(Char(lq, i - 1))
            /\ j = Len(lq) \/ ~IsWord(Char(lq, j + 1))
    IN  {SubSeq(lq, p[1], p[2]) :
            p \in {p \in (1..Len(lq)) \X (1..Len(lq)) :
                      p[2] - p[1] + 1 > 2 /\ word(p[1], p[2])}}

\* C7: the context returned is never longer than the budget; and when the
\* query has no token, or no line of the document contains one (a token
\* holds no newline: a line contains it exactly when the document does),
\* it is the first `budget` characters of the document.
C7_ContextWithinBudget ==
    ctx.called =>
       /\ Len(ctx.out) <= ctx.budget
       /\ (\/ QueryTokens(ctx.query) = {}
           \/ \A tok \in QueryTokens(ctx.query) :
                 ~Contains(tok, Lower(ctx.doc)))
          => ctx.out = SubSeq(ctx.doc, 1, Min(ctx.budget, Len(ctx.doc)))

\* Two matching lines, stripped, joined and cut to the budget.
C7_Witness ==
    /\ ctx.called
    /\ ctx.query = "is ABC xy?"
    /\ ctx.doc = " Abc \nzABCz  "
    /\ ctx.budget = 5
    /\ ctx.out = "Abc\nz"

\* A marker at position i of text s: "day", whitespace or none, "order",
\* whitespace or none, and the digit d, in any case.
IsMarkerAt(s, i, d) ==
    /\ i + 2 <= Len(s)
    /\ Lower(SubSeq(s, i, i + 2)) = "day"
    /\ \E a \in 0..(Len(s) - i - 7) :
        /\ \A k \in (i + 3)..(i + 2 + a) : IsSpace(Char(s, k))
        /\ Lower(SubSeq(s, i + 3 + a, i + 7 + a)) = "order"
        /\ \E b \in 0..(Len(s) - i - 8 - a) :
            /\ \A k \in (i + 8 + a)..(i + 7 + a + b) : IsSpace(Char(s, k))
            /\ Char(s, i + 8 + a + b) = d

MarkersOf(s, n) == {i \in 1..Len(s) : IsMarkerAt(s, i, Digit(n))}

AnyMarkers(s) == {i \in 1..Len(s) : \E n \in 0..9 : IsMarkerAt(s, i, Digit(n))}

Least(S) == CHOOSE i \in S : \A j \in S : i <= j

\* The text from position start up to the first of the positions `later`,
\* or to the end of the text, trimmed.
SpanUpTo(s, start, later) ==
    Strip(SubSeq(s, start, IF later = {} THEN Len(s) ELSE Least(later) - 1))

SpanFrom(s, start) == SpanUpTo(s, start, {j \in AnyMarkers(s) : j > start})

\* What the claim has extract_timetable(n, s) return, starts being the
\* positions of the markers of n in s.
ClaimedSpan(s, n, starts) ==
    IF starts = {}
    THEN "Timetable for Day Order " \o Digit(n) \o " not found."
    ELSE SpanFrom(s, Least(starts))

C9_TargetDate ==
    (nreq > 0 /\ resp.branch \in {"timetable", "dayorder"})
    => resp.target =
          resp.now.date +
             (IF Contains("day after", Lower(SentMessage(resp.body))) THEN 2
              ELSE IF Contains("tomorrow", Lower(SentMessage(resp.body)))
              THEN 1 ELSE 0)

\* C10: when the two interleaved requests have finished, every turn either
\* of them appended is in the session's list.
C10_NoTurnLost ==
    (\A t \in Handlers : pc[t] = "done")
    => \A t \in Handlers :
          /\ tmp[t].sentUser =>
                [role |-> "user", content |-> MessageOf(t)]
                    \in Range(sessions["default"])
          /\ tmp[t].sentReply =>
                AssistantTurn(tmp[t].reply) \in Range(sessions["default"])

====
